---- MODULE Spec2Model ----
(***************************************************************************)
(* State-machine model of the EchoTask synchronisation subsystem:          *)
(*   src/hooks/database-service.ts      (DatabaseService, the local store) *)
(*   src/hooks/firebase-sync-service.ts (FirebaseSyncService, the engine)  *)
(*                                                                         *)
(* One device with its local store, the remote "notes" collection, and the *)
(* in-flight invocations of syncNotes.  The awaits of syncNotes are step   *)
(* boundaries, so other flows (a second invocation, a user edit, a write   *)
(* by another device, a clock tick) interleave where the JavaScript event  *)
(* loop lets them; the handling of one pulled document is one step.        *)
(*                                                                         *)
(* A note's title and content are modelled; completed, tags and checklist  *)
(* are copied by the very same assignments in uploadNote, saveRemoteNote   *)
(* and updateNote, so title and content stand for the content fields.      *)
(* Notes that carry completed, tags and checklist (optional values) are    *)
(* used where getConflictFields itself is examined.                        *)
(***************************************************************************)
EXTENDS Integers, Sequences, FiniteSets, TLC

\* ---------------------------------------------------------------- bounds
MaxClock == 2          \* Date.now() ranges over 1..MaxClock
MaxNotes == 2          \* rows the local store may hold
MaxEdits == 2          \* user mutations (add, update, delete) per behaviour
MaxRemoteWrites == 1   \* uploads made by another device per behaviour
MaxResolves == 2       \* resolveConflict calls per behaviour
MaxPasses == 2         \* passes whose result is drawn from the return type
MaxConflictVersion == 1  \* conflictVersion of a remote revision: 0..MaxConflictVersion

\* limit(100) of the pull query
PageLimit == 100

\* ------------------------------------------------------------ value sets
NoTime == 0 - 1        \* lastSyncAt undefined / last_sync_at NULL / no watermark
NoId == 0 - 1          \* syncId undefined / sync_id NULL
Times == 1..MaxClock
RemoteTimes == 1..(MaxClock + 1)  \* updatedAt as another device's clock stamps it
Vals == {"x", "y"}                \* the code only tests content fields for equality
LocalIds == 1..MaxNotes          \* ids generated by saveNote on this device
ForeignIds == {0}                \* ids generated by saveNote on another device
DocKeys == LocalIds \cup ForeignIds
Invocations == {"a", "b"}        \* in-flight calls of syncNotes

VARIABLES
    isWeb,           \* DatabaseService.isWeb (Platform.OS === 'web')
    clock,           \* the wall clock read by Date.now() / new Date()
    db,              \* the local store: the notes table / the notes_storage array
    watermark,       \* sync metadata 'last_sync_time'
    remote,          \* the Firestore collection 'notes': document key -> document
    isInitialized,   \* FirebaseSyncService.isInitialized
    syncInProgress,  \* FirebaseSyncService.syncInProgress
    pc,              \* per invocation: where syncNotes is suspended
    localNotes,      \* per invocation: notes of getNotesForSync still to push
    docs,            \* per invocation: snapshot.docs still to process
    conflicts,       \* per invocation: the conflicts array
    result,          \* per invocation: the value syncNotes returned
    pushFailed,      \* history, per invocation: ids whose upload threw in this pass
    met,             \* history, per invocation: the notes the pull of this pass
                     \*   found with content fields differing from the document,
                     \*   each with the side whose updatedAt is later
    edits,           \* user mutations made so far (bounds the behaviour)
    remoteWrites,    \* writes by another device so far (bounds the behaviour)
    syncStatus,      \* notes-store: the syncStatus state (isSyncing,
                     \*   pendingChanges, conflicts)
    observed,        \* history, per invocation: lastModified of the documents
                     \*   its last getDocs returned
    resolved,        \* history: the resolveConflict calls that have completed
    passes,          \* passes published from a drawn result (bounds the behaviour)
    connected,       \* the network state databaseService.isOnline() reports
    started,         \* initializeServices has called startRealtimeSync
    listeners,       \* FirebaseSyncService.listeners: active subscriptions
    delivered,       \* per document key: lastModified of the revision the
                     \*   listener was last called with
    rt,              \* the onSnapshot callback: where it is suspended, the
                     \*   change it handles
    peer             \* a second device on the same collection: its local
                     \*   store and its 'last_sync_time'

vars == <<isWeb, clock, db, watermark, remote, isInitialized, syncInProgress,
          pc, localNotes, docs, conflicts, result, pushFailed, met,
          edits, remoteWrites, syncStatus, observed, resolved, passes,
          connected, started, listeners, delivered, rt, peer>>

\* The state of the realtime subscription (startRealtimeSync).
realtimeVars == <<connected, started, listeners, delivered, rt>>

\* The state of notes-store.ts and the history kept for it, with the
\* subscription it starts and the second device.
storeVars == <<syncStatus, observed, resolved, passes, realtimeVars, peer>>

\* ------------------------------------------------------- sequence helpers
Take(s, n) == IF Len(s) <= n THEN s ELSE SubSeq(s, 1, n)

\* JavaScript's a || b on ids (undefined is NoId)
OrId(a, b) == IF a # NoId THEN a ELSE b

\* An optional value: undefined, or the value in a one-element sequence.
Undefined == <<>>
Some(v) == <<v>>

\* note.f of a note that may not carry the field.
Field(n, f) == IF f \in DOMAIN n THEN n[f] ELSE Undefined

\* note.completed || false
OrFalse(o) == IF o = Undefined \/ o = Some(FALSE) THEN Some(FALSE) ELSE o

\* note.checklist || [] and data.tags || [] (an empty array is truthy)
OrEmpty(o) == IF o = Undefined THEN Some(<<>>) ELSE o

\* JSON.stringify of an optional array of strings: undefined for undefined,
\* else the text of the array.
Stringify(o) == IF o = Undefined THEN Undefined ELSE Some(<<"[">> \o o[1] \o <<"]">>)

\* ------------------------------------------------------- DatabaseService
\* The dirty predicate of getNotesForSync / getNotesForSyncWeb.
IsDirty(n) == n.lastSyncAt = NoTime \/ n.updatedAt > n.lastSyncAt

\* getAllNotesWeb: the stored array without the soft-deleted notes.
GetAllNotesWeb(d) == { d[i] : i \in { j \in DOMAIN d : ~d[j].isDeleted } }

\* getNoteById / getNoteByIdWeb: both skip soft-deleted rows.  The result is
\* the set holding the note, empty for null.
GetNoteById(d, id) ==
    { d[i] : i \in { j \in DOMAIN d : d[j].id = id /\ ~d[j].isDeleted } }

\* ORDER BY updated_at ASC; rows with equal updated_at keep insertion order.
UpdatedAsc(x, y) ==
    x.updatedAt < y.updatedAt \/ (x.updatedAt = y.updatedAt /\ x.id < y.id)

RECURSIVE SortUpdatedAsc(_)
SortUpdatedAsc(S) ==
    IF S = {} THEN <<>>
    ELSE LET m == CHOOSE x \in S : \A y \in S \ {x} : UpdatedAsc(x, y)
         IN  <<m>> \o SortUpdatedAsc(S \ {m})

\* getNotesForSyncWeb reads through getAllNotesWeb, which drops deleted notes.
GetNotesForSyncWeb(d) ==
    SortUpdatedAsc({ n \in GetAllNotesWeb(d) : IsDirty(n) })

\* getNotesForSync on SQLite selects on the dirty predicate alone.
GetNotesForSyncSql(d) ==
    SortUpdatedAsc({ d[i] : i \in { j \in DOMAIN d : IsDirty(d[j]) } })

GetNotesForSync(web, d) ==
    IF web THEN GetNotesForSyncWeb(d) ELSE GetNotesForSyncSql(d)

\* saveNote: a fresh id, createdAt = updatedAt = now, the rest from the caller.
SaveNote(d, data, now) ==
    Append(d, [ id             |-> Len(d) + 1,
                title          |-> data.title,
                content        |-> data.content,
                updatedAt      |-> now,
                lastSyncAt     |-> data.lastSyncAt,
                syncId         |-> data.syncId,
                conflictVersion |-> 0,
                isDeleted      |-> data.isDeleted ])

\* updateNoteWeb: {...note, ...updates, updatedAt: now}
UpdateNoteWeb(d, id, updates, now) ==
    [ i \in DOMAIN d |->
        IF d[i].id = id
        THEN [ f \in DOMAIN d[i] |->
                 IF f = "updatedAt" THEN now
                 ELSE IF f \in DOMAIN updates THEN updates[f]
                 ELSE d[i][f] ]
        ELSE d[i] ]

\* updateNote on SQLite: only title, content (richContent, type, completed,
\* tags, checklist) are written, plus updated_at = now.
SqlColumns == {"title", "content"}

UpdateNoteSql(d, id, updates, now) ==
    [ i \in DOMAIN d |->
        IF d[i].id = id
        THEN [ f \in DOMAIN d[i] |->
                 IF f = "updatedAt" THEN now
                 ELSE IF f \in DOMAIN updates /\ f \in SqlColumns THEN updates[f]
                 ELSE d[i][f] ]
        ELSE d[i] ]

UpdateNote(web, d, id, updates, now) ==
    IF web THEN UpdateNoteWeb(d, id, updates, now)
    ELSE UpdateNoteSql(d, id, updates, now)

\* deleteNote / deleteNoteWeb: soft delete, updatedAt = now.
DeleteNote(d, id, now) ==
    [ i \in DOMAIN d |->
        IF d[i].id = id
        THEN [ d[i] EXCEPT !.isDeleted = TRUE, !.updatedAt = now ]
        ELSE d[i] ]

\* markAsSynced / markAsSyncedWeb: syncId and lastSyncAt = now, whatever the
\* row holds by now.
MarkAsSynced(d, id, syncId, now) ==
    [ i \in DOMAIN d |->
        IF d[i].id = id
        THEN [ d[i] EXCEPT !.syncId = syncId, !.lastSyncAt = now ]
        ELSE d[i] ]

\* --------------------------------------------------- FirebaseSyncService
\* A document is its data() and, as key, the id of its DocumentSnapshot.
NoDoc == [ id |-> NoId ]
Present(r, k) == r[k].id # NoId

\* uploadNote: setDoc(doc('notes', note.syncId || note.id), {...}, {merge: true});
\* lastModified is the server's timestamp.
UploadNote(r, note, serverNow) ==
    [ r EXCEPT ![OrId(note.syncId, note.id)] =
        IF "tags" \in DOMAIN note
        THEN [ key             |-> OrId(note.syncId, note.id),
               id              |-> note.id,
               title           |-> note.title,
               content         |-> note.content,
               completed       |-> OrFalse(Field(note, "completed")),
               checklist       |-> OrEmpty(Field(note, "checklist")),
               tags            |-> note.tags,
               updatedAt       |-> note.updatedAt,
               isDeleted       |-> note.isDeleted,
               conflictVersion |-> note.conflictVersion,
               lastModified    |-> serverNow ]
        ELSE [ key             |-> OrId(note.syncId, note.id),
               id              |-> note.id,
               title           |-> note.title,
               content         |-> note.content,
               updatedAt       |-> note.updatedAt,
               isDeleted       |-> note.isDeleted,
               conflictVersion |-> note.conflictVersion,
               lastModified    |-> serverNow ] ]

\* mapFirebaseToNote: syncId is data.id, lastSyncAt is new Date().
MapFirebaseToNote(data, now) ==
    IF "tags" \in DOMAIN data
    THEN [ id              |-> data.id,
           title           |-> data.title,
           content         |-> data.content,
           completed       |-> data.completed,
           checklist       |-> data.checklist,
           tags            |-> OrEmpty(data.tags),
           updatedAt       |-> data.updatedAt,
           syncId          |-> data.id,
           lastSyncAt      |-> now,
           conflictVersion |-> data.conflictVersion,
           isDeleted       |-> data.isDeleted ]
    ELSE [ id              |-> data.id,
           title           |-> data.title,
           content         |-> data.content,
           updatedAt       |-> data.updatedAt,
           syncId          |-> data.id,
           lastSyncAt      |-> now,
           conflictVersion |-> data.conflictVersion,
           isDeleted       |-> data.isDeleted ]

\* getConflictFields, in the order the code pushes the names.
GetConflictFields(local, rem) ==
    (IF local.title # rem.title THEN <<"title">> ELSE <<>>)
    \o (IF local.content # rem.content THEN <<"content">> ELSE <<>>)
    \o (IF Field(local, "completed") # Field(rem, "completed")
        THEN <<"completed">> ELSE <<>>)
    \o (IF Stringify(Field(local, "tags")) # Stringify(Field(rem, "tags"))
        THEN <<"tags">> ELSE <<>>)
    \o (IF Stringify(Field(local, "checklist")) # Stringify(Field(rem, "checklist"))
        THEN <<"checklist">> ELSE <<>>)

\* saveRemoteNote: update the note when getNoteById finds it, else saveNote.
\* lastSyncAt is read at `now`; updateNoteWeb reads its own `now` after an
\* await (`later`), updateNote on SQLite and saveNote read it at once.
SaveRemoteNote(web, d, note, now, later) ==
    LET data == [ title      |-> note.title,
                  content    |-> note.content,
                  syncId     |-> note.syncId,
                  lastSyncAt |-> now,
                  isDeleted  |-> note.isDeleted ]
    IN  IF GetNoteById(d, note.id) # {}
        THEN UpdateNote(web, d, note.id, data, IF web THEN later ELSE now)
        ELSE SaveNote(d, data, now)

\* Faulty variant: the remote revision always wins.
ResolveRemoteAlways(web, d, r, localNote, remoteNote, now, later) ==
    [ db |-> SaveRemoteNote(web, d, remoteNote, now, later),
      remote |-> r, conflict |-> <<>> ]

\* resolveConflict: the outcome as [db, remote, conflict], conflict being the
\* returned SyncConflict in a sequence, empty for null.
ResolveConflict(web, d, r, localNote, remoteNote, now, later) ==
    IF remoteNote.updatedAt > localNote.updatedAt
    THEN [ db |-> SaveRemoteNote(web, d, remoteNote, now, later),
           remote |-> r, conflict |-> <<>> ]
    ELSE IF localNote.updatedAt > remoteNote.updatedAt
    THEN [ db |-> d, remote |-> UploadNote(r, localNote, now), conflict |-> <<>> ]
    ELSE LET conflictFields == GetConflictFields(localNote, remoteNote)
         IN  [ db |-> d, remote |-> r,
               conflict |->
                 IF Len(conflictFields) > 0
                 THEN << [ noteId         |-> localNote.id,
                           localVersion   |-> localNote,
                           remoteVersion  |-> remoteNote,
                           conflictFields |-> conflictFields ] >>
                 ELSE <<>> ]

\* The body of downloadRemoteChanges' loop for one docSnapshot.
DownloadDoc(web, d, r, data, now, later) ==
    LET remoteNote == MapFirebaseToNote(data, now)
        found == GetNoteById(d, remoteNote.id)
    IN  IF found = {}
        THEN [ db |-> SaveRemoteNote(web, d, remoteNote, now, later),
               remote |-> r, conflict |-> <<>> ]
        ELSE LET localNote == CHOOSE n \in found : TRUE
             IN  IF localNote.updatedAt # remoteNote.updatedAt
                 THEN ResolveConflict(web, d, r, localNote, remoteNote, now, later)
                 ELSE [ db |-> d, remote |-> r, conflict |-> <<>> ]

\* orderBy('lastModified', 'desc'); equal timestamps fall back to the key.
ModifiedDesc(r, j, k) ==
    r[j].lastModified > r[k].lastModified
    \/ (r[j].lastModified = r[k].lastModified /\ j > k)

RECURSIVE SortModifiedDesc(_, _)
SortModifiedDesc(r, K) ==
    IF K = {} THEN <<>>
    ELSE LET m == CHOOSE j \in K : \A k \in K \ {j} : ModifiedDesc(r, j, k)
         IN  <<r[m]>> \o SortModifiedDesc(r, K \ {m})

\* The query of downloadRemoteChanges: where('lastModified', '>', lastSync)
\* only when a watermark is stored, newest first, limit(100).
QueryDocs(r, lastSyncTime) ==
    Take(SortModifiedDesc(r, { k \in DocKeys :
            /\ Present(r, k)
            /\ (lastSyncTime = NoTime \/ r[k].lastModified > lastSyncTime) }),
         PageLimit)

\* ------------------------------------------------------------------ Init
Refused == [ success |-> FALSE, conflicts |-> <<>> ]

Init ==
    /\ isWeb \in BOOLEAN
    /\ clock = 1
    /\ db = <<>>
    /\ watermark = NoTime
    /\ remote = [ k \in DocKeys |-> NoDoc ]
    /\ isInitialized = FALSE
    /\ syncInProgress = FALSE
    /\ pc = [ p \in Invocations |-> "idle" ]
    /\ localNotes = [ p \in Invocations |-> <<>> ]
    /\ docs = [ p \in Invocations |-> <<>> ]
    /\ conflicts = [ p \in Invocations |-> <<>> ]
    /\ result = [ p \in Invocations |-> Refused ]
    /\ pushFailed = [ p \in Invocations |-> {} ]
    /\ met = [ p \in Invocations |-> {} ]
    /\ edits = 0
    /\ remoteWrites = 0
    /\ syncStatus = [ isSyncing |-> FALSE, pendingChanges |-> 0, conflicts |-> <<>> ]
    /\ observed = [ p \in Invocations |-> {} ]
    /\ resolved = <<>>
    /\ passes = 0
    /\ connected = TRUE
    /\ started = FALSE
    /\ listeners = 0
    /\ delivered = [ k \in DocKeys |-> NoTime ]
    /\ rt = [ pc |-> "idle", data |-> NoDoc ]
    /\ peer = [ db |-> <<>>, watermark |-> NoTime ]

\* ----------------------------------------------------------- environment
\* Time passes.
Tick ==
    /\ clock < MaxClock
    /\ clock' = clock + 1
    /\ UNCHANGED <<isWeb, db, watermark, remote, isInitialized, syncInProgress,
                   pc, localNotes, docs, conflicts, result, pushFailed, met, edits, remoteWrites>>

\* initialize(): a failure leaves isInitialized false (a stuttering step).
Initialize ==
    /\ ~isInitialized
    /\ isInitialized' = TRUE
    /\ UNCHANGED <<isWeb, clock, db, watermark, remote, syncInProgress,
                   pc, localNotes, docs, conflicts, result, pushFailed, met, edits, remoteWrites>>

\* Another writer of the collection: its own note under a key of its own, or
\* a new revision of a document that is already there (the id is kept).
RemoteWrite(k, title, content, updatedAt, isDeleted) ==
    /\ remoteWrites < MaxRemoteWrites
    /\ Present(remote, k) \/ k \in ForeignIds
    /\ remote' = [ remote EXCEPT ![k] =
          [ key             |-> k,
            id              |-> IF Present(remote, k) THEN remote[k].id ELSE k,
            title           |-> title,
            content         |-> content,
            updatedAt       |-> updatedAt,
            isDeleted       |-> isDeleted,
            conflictVersion |-> 0,
            lastModified    |-> clock ] ]
    /\ remoteWrites' = remoteWrites + 1
    /\ UNCHANGED <<isWeb, clock, db, watermark, isInitialized, syncInProgress,
                   pc, localNotes, docs, conflicts, result, pushFailed, met, edits>>

\* ------------------------------------------------- user mutations (store)
\* addNote of notes-store: databaseService.saveNote of the user's fields.
AddNote(title, content) ==
    /\ edits < MaxEdits
    /\ Len(db) < MaxNotes
    /\ db' = SaveNote(db, [ title |-> title, content |-> content,
                            syncId |-> NoId, lastSyncAt |-> NoTime,
                            isDeleted |-> FALSE ], clock)
    /\ edits' = edits + 1
    /\ UNCHANGED <<isWeb, clock, watermark, remote, isInitialized, syncInProgress,
                   pc, localNotes, docs, conflicts, result, pushFailed, met,
                   remoteWrites>>

\* updateNote of notes-store, on a note the UI shows (getAllNotes).
EditNote(id, updates) ==
    /\ edits < MaxEdits
    /\ GetNoteById(db, id) # {}
    /\ db' = UpdateNote(isWeb, db, id, updates, clock)
    /\ edits' = edits + 1
    /\ UNCHANGED <<isWeb, clock, watermark, remote, isInitialized, syncInProgress,
                   pc, localNotes, docs, conflicts, result, pushFailed, met,
                   remoteWrites>>

\* deleteNote of notes-store, on a note the UI shows.
RemoveNote(id) ==
    /\ edits < MaxEdits
    /\ GetNoteById(db, id) # {}
    /\ db' = DeleteNote(db, id, clock)
    /\ edits' = edits + 1
    /\ UNCHANGED <<isWeb, clock, watermark, remote, isInitialized, syncInProgress,
                   pc, localNotes, docs, conflicts, result, pushFailed, met,
                   remoteWrites>>

\* -------------------------------------------------------------- syncNotes
\* pc: "idle" (no call), "isOnline", "getNotes", "upload", "mark", "pull",
\* "doc", "setTime", "return" (the awaits the call is suspended at, in order),
\* "refused" (returned by one of the two early returns), "done" (returned
\* through the finally block).
\*
\* The entry guard.  A refused call returns at once; an accepted one suspends
\* at `await databaseService.isOnline()`.
\* Faulty variant: the guard without its test of syncInProgress.
GuardIgnoresFlag == ~isInitialized

GuardRefuses == ~isInitialized \/ syncInProgress

SyncEnter(p) ==
    /\ pc[p] = "idle"
    /\ IF GuardRefuses
       THEN /\ pc' = [ pc EXCEPT ![p] = "refused" ]
            /\ result' = [ result EXCEPT ![p] = Refused ]
       ELSE /\ pc' = [ pc EXCEPT ![p] = "isOnline" ]
            /\ UNCHANGED result
    /\ pushFailed' = [ pushFailed EXCEPT ![p] = {} ]
    /\ met' = [ met EXCEPT ![p] = {} ]
    /\ UNCHANGED <<isWeb, clock, db, watermark, remote, isInitialized,
                   syncInProgress, localNotes, docs, conflicts, edits,
                   remoteWrites>>

\* isOnline() resolves.  Offline: return.  Online: syncInProgress = true and
\* the call suspends at getNotesForSync.
FlagAfterOnline(flag) == TRUE

SyncOnline(p, online) ==
    /\ pc[p] = "isOnline"
    /\ IF ~online
       THEN /\ pc' = [ pc EXCEPT ![p] = "refused" ]
            /\ result' = [ result EXCEPT ![p] = Refused ]
            /\ UNCHANGED <<syncInProgress, conflicts>>
       ELSE /\ syncInProgress' = FlagAfterOnline(syncInProgress)
            /\ conflicts' = [ conflicts EXCEPT ![p] = <<>> ]
            /\ pc' = [ pc EXCEPT ![p] = "getNotes" ]
            /\ UNCHANGED result
    /\ UNCHANGED <<isWeb, clock, db, watermark, remote, isInitialized,
                   localNotes, docs, pushFailed, met, edits,
                   remoteWrites>>

AfterPush(rest) == IF rest = <<>> THEN "pull" ELSE "upload"

\* getNotesForSync() resolves with the dirty notes as they are now.
SyncGetNotes(p) ==
    /\ pc[p] = "getNotes"
    /\ localNotes' = [ localNotes EXCEPT ![p] = GetNotesForSync(isWeb, db) ]
    /\ pc' = [ pc EXCEPT ![p] = AfterPush(GetNotesForSync(isWeb, db)) ]
    /\ UNCHANGED <<isWeb, clock, db, watermark, remote, isInitialized,
                   syncInProgress, docs, conflicts, result, pushFailed, met, edits, remoteWrites>>

\* uploadNote(note) of the note read by getNotesForSync succeeds.
SyncUpload(p) ==
    /\ pc[p] = "upload"
    /\ remote' = UploadNote(remote, Head(localNotes[p]), clock)
    /\ pc' = [ pc EXCEPT ![p] = "mark" ]
    /\ UNCHANGED <<isWeb, clock, db, watermark, isInitialized, syncInProgress,
                   localNotes, docs, conflicts, result, pushFailed, met, edits, remoteWrites>>

\* Faulty variant: the try/catch around the whole loop, not inside it.
UploadFailAborts(rest) == "pull"

\* Where the catch inside the for loop leaves the pass: at the next note.
AfterUploadFail(rest) == AfterPush(rest)

\* uploadNote(note) throws: the catch logs, the loop goes on.
SyncUploadFail(p) ==
    /\ pc[p] = "upload"
    /\ localNotes' = [ localNotes EXCEPT ![p] = Tail(localNotes[p]) ]
    /\ pc' = [ pc EXCEPT ![p] = AfterUploadFail(Tail(localNotes[p])) ]
    /\ pushFailed' = [ pushFailed EXCEPT
                         ![p] = pushFailed[p] \cup {Head(localNotes[p]).id} ]
    /\ UNCHANGED <<isWeb, clock, db, watermark, remote, isInitialized,
                   syncInProgress, docs, conflicts, result, met,
                   edits, remoteWrites>>

\* markAsSynced(note.id, note.syncId || note.id) after the upload.
SyncMark(p) ==
    /\ pc[p] = "mark"
    /\ LET note == Head(localNotes[p])
       IN  db' = MarkAsSynced(db, note.id, OrId(note.syncId, note.id), clock)
    /\ localNotes' = [ localNotes EXCEPT ![p] = Tail(localNotes[p]) ]
    /\ pc' = [ pc EXCEPT ![p] = AfterPush(Tail(localNotes[p])) ]
    /\ UNCHANGED <<isWeb, clock, watermark, remote, isInitialized,
                   syncInProgress, docs, conflicts, result, pushFailed, met, edits, remoteWrites>>

AfterDocs(rest) == IF rest = <<>> THEN "setTime" ELSE "doc"

\* downloadRemoteChanges: getSyncMetadata and getDocs resolve.
SyncQuery(p) ==
    /\ pc[p] = "pull"
    /\ docs' = [ docs EXCEPT ![p] = QueryDocs(remote, watermark) ]
    /\ pc' = [ pc EXCEPT ![p] = AfterDocs(QueryDocs(remote, watermark)) ]
    /\ UNCHANGED <<isWeb, clock, db, watermark, remote, isInitialized,
                   syncInProgress, localNotes, conflicts, result, pushFailed,
                   met, edits, remoteWrites>>

\* The times updateNoteWeb may read after its await.
LaterTimes == IF isWeb THEN {clock, clock + 1} \cap Times ELSE {clock}

\* Which of the two revisions carries the later updatedAt.
Later(localNote, remoteNote) ==
    IF remoteNote.updatedAt > localNote.updatedAt THEN "remote"
    ELSE IF localNote.updatedAt > remoteNote.updatedAt THEN "local"
    ELSE "none"

\* One docSnapshot of the loop: getNoteById, then saveRemoteNote or
\* resolveConflict.
SyncDoc(p, later) ==
    /\ pc[p] = "doc"
    /\ LET data == Head(docs[p])
           out == DownloadDoc(isWeb, db, remote, data, clock, later)
           remoteNote == MapFirebaseToNote(data, clock)
           found == GetNoteById(db, remoteNote.id)
       IN  /\ Len(out.db) <= MaxNotes
           /\ db' = out.db
           /\ remote' = out.remote
           /\ conflicts' = [ conflicts EXCEPT ![p] = conflicts[p] \o out.conflict ]
           /\ met' = [ met EXCEPT ![p] =
                 met[p] \cup { [ id |-> n.id, later |-> Later(n, remoteNote) ] :
                                n \in { m \in found :
                                  GetConflictFields(m, remoteNote) # <<>> } } ]
    /\ clock' = later
    /\ docs' = [ docs EXCEPT ![p] = Tail(docs[p]) ]
    /\ pc' = [ pc EXCEPT ![p] = AfterDocs(Tail(docs[p])) ]
    /\ UNCHANGED <<isWeb, watermark, isInitialized, syncInProgress, localNotes,
                   result, pushFailed, edits, remoteWrites>>

\* setSyncMetadata('last_sync_time', Date.now().toString())
SyncSetTime(p) ==
    /\ pc[p] = "setTime"
    /\ watermark' = clock
    /\ pc' = [ pc EXCEPT ![p] = "return" ]
    /\ UNCHANGED <<isWeb, clock, db, remote, isInitialized, syncInProgress,
                   localNotes, docs, conflicts, result, pushFailed, met, edits, remoteWrites>>

\* Faulty variant: no finally block.
FlagKept(flag) == flag

\* The flag as the finally block leaves it.
FlagAfterFinally(flag) == FALSE

\* return { success: true, conflicts }, through the finally block.
SyncReturn(p) ==
    /\ pc[p] = "return"
    /\ result' = [ result EXCEPT ![p] =
                     [ success |-> TRUE, conflicts |-> conflicts[p] ] ]
    /\ syncInProgress' = FlagAfterFinally(syncInProgress)
    /\ pc' = [ pc EXCEPT ![p] = "done" ]
    /\ UNCHANGED <<isWeb, clock, db, watermark, remote, isInitialized,
                   localNotes, docs, conflicts, pushFailed, met,
                   edits, remoteWrites>>

\* Faulty variant: the failed pull stores the watermark all the same.
PullFailAdvances(p) ==
    /\ pc[p] \in {"pull", "doc"}
    /\ result' = [ result EXCEPT ![p] =
                     [ success |-> FALSE, conflicts |-> <<>> ] ]
    /\ syncInProgress' = FlagAfterFinally(syncInProgress)
    /\ docs' = [ docs EXCEPT ![p] = <<>> ]
    /\ watermark' = clock
    /\ pc' = [ pc EXCEPT ![p] = "done" ]
    /\ UNCHANGED <<isWeb, clock, db, remote, isInitialized,
                   localNotes, conflicts, pushFailed, met, edits,
                   remoteWrites>>

\* getDocs, or the handling of a document, throws: the outer catch returns
\* { success: false, conflicts }, through the finally block; the conflicts
\* of downloadRemoteChanges are lost with it, syncNotes' own array is empty.
SyncPullFail(p) ==
    /\ pc[p] \in {"pull", "doc"}
    /\ result' = [ result EXCEPT ![p] =
                     [ success |-> FALSE, conflicts |-> <<>> ] ]
    /\ syncInProgress' = FlagAfterFinally(syncInProgress)
    /\ docs' = [ docs EXCEPT ![p] = <<>> ]
    /\ pc' = [ pc EXCEPT ![p] = "done" ]
    /\ UNCHANGED <<isWeb, clock, db, watermark, remote, isInitialized,
                   localNotes, conflicts, pushFailed, met, edits,
                   remoteWrites>>

\* The caller (performSync) has taken the result; the invocation is over.
SyncDone(p) ==
    /\ pc[p] \in {"refused", "done"}
    /\ pc' = [ pc EXCEPT ![p] = "idle" ]
    /\ result' = [ result EXCEPT ![p] = Refused ]
    /\ conflicts' = [ conflicts EXCEPT ![p] = <<>> ]
    /\ pushFailed' = [ pushFailed EXCEPT ![p] = {} ]
    /\ met' = [ met EXCEPT ![p] = {} ]
    /\ UNCHANGED <<isWeb, clock, db, watermark, remote, isInitialized,
                   syncInProgress, localNotes, docs, edits,
                   remoteWrites>>

\* ------------------------------------------------------------------ Next
Updates == { [ title |-> v ] : v \in Vals } \cup { [ content |-> v ] : v \in Vals }

\* Every step of one invocation of syncNotes.
SyncStep(p) ==
    \/ SyncEnter(p)
    \/ \E online \in BOOLEAN : SyncOnline(p, online)
    \/ SyncGetNotes(p)
    \/ SyncUpload(p)
    \/ SyncUploadFail(p)
    \/ SyncMark(p)
    \/ SyncQuery(p)
    \/ \E later \in LaterTimes : SyncDoc(p, later)
    \/ SyncSetTime(p)
    \/ SyncReturn(p)
    \/ SyncPullFail(p)
    \/ SyncDone(p)

UserStep ==
    \/ \E t \in Vals, c \in Vals : AddNote(t, c)
    \/ \E id \in LocalIds, u \in Updates : EditNote(id, u)
    \/ \E id \in LocalIds : RemoveNote(id)

\* The device alone: the user, the clock, and any number of overlapping
\* triggers of syncNotes (manualSync, the timer, the mutation hooks); the
\* steps are those of UserStep and SyncStep, notes-store left aside.
Next ==
    \/ Tick /\ UNCHANGED storeVars
    \/ Initialize /\ UNCHANGED storeVars
    \/ \E t \in Vals, c \in Vals : AddNote(t, c) /\ UNCHANGED storeVars
    \/ \E id \in LocalIds, u \in Updates : EditNote(id, u) /\ UNCHANGED storeVars
    \/ \E id \in LocalIds : RemoveNote(id) /\ UNCHANGED storeVars
    \/ \E p \in Invocations : SyncEnter(p) /\ UNCHANGED storeVars
    \/ \E p \in Invocations, online \in BOOLEAN : SyncOnline(p, online) /\ UNCHANGED storeVars
    \/ \E p \in Invocations : SyncGetNotes(p) /\ UNCHANGED storeVars
    \/ \E p \in Invocations : SyncUpload(p) /\ UNCHANGED storeVars
    \/ \E p \in Invocations : SyncUploadFail(p) /\ UNCHANGED storeVars
    \/ \E p \in Invocations : SyncMark(p) /\ UNCHANGED storeVars
    \/ \E p \in Invocations : SyncQuery(p) /\ UNCHANGED storeVars
    \/ \E p \in Invocations, later \in LaterTimes : SyncDoc(p, later) /\ UNCHANGED storeVars
    \/ \E p \in Invocations : SyncSetTime(p) /\ UNCHANGED storeVars
    \/ \E p \in Invocations : SyncReturn(p) /\ UNCHANGED storeVars
    \/ \E p \in Invocations : SyncPullFail(p) /\ UNCHANGED storeVars
    \/ \E p \in Invocations : SyncDone(p) /\ UNCHANGED storeVars

Spec == Init /\ [][Next]_vars

\* The device with another writer of the collection, its triggers of
\* syncNotes coming one after the other.
NextShared ==
    \/ Tick /\ UNCHANGED storeVars
    \/ Initialize /\ UNCHANGED storeVars
    \/ \E t \in Vals, c \in Vals : AddNote(t, c) /\ UNCHANGED storeVars
    \/ \E id \in LocalIds, u \in Updates : EditNote(id, u) /\ UNCHANGED storeVars
    \/ \E id \in LocalIds : RemoveNote(id) /\ UNCHANGED storeVars
    \/ \E k \in DocKeys, t \in Vals, c \in Vals, u \in RemoteTimes, del \in BOOLEAN :
          RemoteWrite(k, t, c, u, del) /\ UNCHANGED storeVars
    \/ SyncEnter("a") /\ UNCHANGED storeVars
    \/ \E online \in BOOLEAN : SyncOnline("a", online) /\ UNCHANGED storeVars
    \/ SyncGetNotes("a") /\ UNCHANGED storeVars
    \/ SyncUpload("a") /\ UNCHANGED storeVars
    \/ SyncUploadFail("a") /\ UNCHANGED storeVars
    \/ SyncMark("a") /\ UNCHANGED storeVars
    \/ SyncQuery("a") /\ UNCHANGED storeVars
    \/ \E later \in LaterTimes : SyncDoc("a", later) /\ UNCHANGED storeVars
    \/ SyncSetTime("a") /\ UNCHANGED storeVars
    \/ SyncReturn("a") /\ UNCHANGED storeVars
    \/ SyncPullFail("a") /\ UNCHANGED storeVars
    \/ SyncDone("a") /\ UNCHANGED storeVars

SpecShared == Init /\ [][NextShared]_vars

\* ------------------------------------------------------------ notes-store
\* loadNotes: pendingChanges is the length of getNotesForSync()'s result.
LoadNotes(status, web, d) ==
    [ status EXCEPT !.pendingChanges = Len(GetNotesForSync(web, d)) ]

\* The updater performSync applies after a successful pass:
\* {...prev, conflicts: result.conflicts, pendingChanges: 0}.
PublishResult(prev, res) ==
    [ prev EXCEPT !.conflicts = res.conflicts, !.pendingChanges = 0 ]

\* performSync once syncNotes has returned res: on success loadNotes, then
\* the updater; otherwise the status is left as it is.
PerformSync(status, res, web, d) ==
    IF res.success THEN PublishResult(LoadNotes(status, web, d), res)
    ELSE status

\* The finally block of performSync: isSyncing: false.
SyncingAfterFinally(status) == [ status EXCEPT !.isSyncing = FALSE ]

\* What notes-store does along a step of invocation p of syncNotes: before
\* the call performSync sets isSyncing; when the call returns, it publishes
\* the result and its finally block resets isSyncing.
StoreAfterSync(p) ==
    /\ syncStatus' = IF pc[p] \in {"refused", "done"}
                     THEN SyncingAfterFinally(
                              PerformSync(syncStatus, result[p], isWeb, db))
                     ELSE IF pc[p] = "idle"
                     THEN [ syncStatus EXCEPT !.isSyncing = TRUE ]
                     ELSE syncStatus
    /\ observed' = IF pc[p] = "pull" /\ pc'[p] # "done"
                   THEN [ observed EXCEPT ![p] =
                            { docs'[p][i].lastModified : i \in DOMAIN docs'[p] } ]
                   ELSE IF pc[p] \in {"refused", "done"}
                   THEN [ observed EXCEPT ![p] = {} ]
                   ELSE observed
    /\ UNCHANGED <<resolved, passes, realtimeVars, peer>>

\* addNote / updateNote / deleteNote of notes-store: the mutation, then
\* loadNotes.
StoreAfterUser ==
    /\ syncStatus' = LoadNotes(syncStatus, isWeb, db')
    /\ UNCHANGED <<observed, resolved, passes, realtimeVars, peer>>

\* The device alone with its notes-store, the triggers of syncNotes coming
\* one after the other.
NextStore ==
    \/ Tick /\ UNCHANGED storeVars
    \/ Initialize /\ UNCHANGED storeVars
    \/ \E t \in Vals, c \in Vals : AddNote(t, c) /\ StoreAfterUser
    \/ \E id \in LocalIds, u \in Updates : EditNote(id, u) /\ StoreAfterUser
    \/ \E id \in LocalIds : RemoveNote(id) /\ StoreAfterUser
    \/ SyncEnter("a") /\ StoreAfterSync("a")
    \/ \E online \in BOOLEAN : SyncOnline("a", online) /\ StoreAfterSync("a")
    \/ SyncGetNotes("a") /\ StoreAfterSync("a")
    \/ SyncUpload("a") /\ StoreAfterSync("a")
    \/ SyncUploadFail("a") /\ StoreAfterSync("a")
    \/ SyncMark("a") /\ StoreAfterSync("a")
    \/ SyncQuery("a") /\ StoreAfterSync("a")
    \/ \E later \in LaterTimes : SyncDoc("a", later) /\ StoreAfterSync("a")
    \/ SyncSetTime("a") /\ StoreAfterSync("a")
    \/ SyncReturn("a") /\ StoreAfterSync("a")
    \/ SyncPullFail("a") /\ StoreAfterSync("a")
    \/ SyncDone("a") /\ StoreAfterSync("a")

SpecStore == Init /\ [][NextStore]_vars

\* Two performSync calls in flight (the periodic timer's and the one addNote
\* starts without awaiting it), each with its invocation of syncNotes.
NextSyncing ==
    \/ Initialize /\ UNCHANGED storeVars
    \/ AddNote("x", "x") /\ StoreAfterUser
    \/ \E p \in Invocations : SyncEnter(p) /\ StoreAfterSync(p)
    \/ \E p \in Invocations : SyncOnline(p, TRUE) /\ StoreAfterSync(p)
    \/ \E p \in Invocations : SyncGetNotes(p) /\ StoreAfterSync(p)
    \/ \E p \in Invocations : SyncUpload(p) /\ StoreAfterSync(p)
    \/ \E p \in Invocations : SyncMark(p) /\ StoreAfterSync(p)
    \/ \E p \in Invocations : SyncQuery(p) /\ StoreAfterSync(p)
    \/ \E p \in Invocations, later \in LaterTimes :
          SyncDoc(p, later) /\ StoreAfterSync(p)
    \/ \E p \in Invocations : SyncSetTime(p) /\ StoreAfterSync(p)
    \/ \E p \in Invocations : SyncReturn(p) /\ StoreAfterSync(p)
    \/ \E p \in Invocations : SyncDone(p) /\ StoreAfterSync(p)

SpecSyncing == Init /\ [][NextSyncing]_vars

\* The periodic timer of startPeriodicSync alone with the user: every 30 s
\* performSync calls syncNotes; the device is online and no upload and no
\* pull fails.
PeriodicStep ==
    \/ SyncEnter("a") /\ StoreAfterSync("a")
    \/ SyncOnline("a", TRUE) /\ StoreAfterSync("a")
    \/ SyncGetNotes("a") /\ StoreAfterSync("a")
    \/ SyncUpload("a") /\ StoreAfterSync("a")
    \/ SyncMark("a") /\ StoreAfterSync("a")
    \/ SyncQuery("a") /\ StoreAfterSync("a")
    \/ \E later \in LaterTimes : SyncDoc("a", later) /\ StoreAfterSync("a")
    \/ SyncSetTime("a") /\ StoreAfterSync("a")
    \/ SyncReturn("a") /\ StoreAfterSync("a")
    \/ SyncDone("a") /\ StoreAfterSync("a")

NextPeriodic ==
    \/ Tick /\ UNCHANGED storeVars
    \/ Initialize /\ UNCHANGED storeVars
    \/ AddNote("x", "x") /\ StoreAfterUser
    \/ \E id \in LocalIds : EditNote(id, [ content |-> "y" ]) /\ StoreAfterUser
    \/ \E id \in LocalIds : RemoveNote(id) /\ StoreAfterUser
    \/ PeriodicStep

\* setInterval fires again and again and every await of a pass resolves.
FairPeriodic == Init /\ [][NextPeriodic]_vars /\ WF_vars(PeriodicStep)

\* ------------------------------------------------- conflicts, notes-store
\* resolveConflictManually: const noteToKeep = useLocal ? local : remote.
\* Faulty variant: the remote version is kept whatever the choice.
KeepRemote(conflict, useLocal) == conflict.remoteVersion

NoteToKeep(conflict, useLocal) ==
    IF useLocal THEN conflict.localVersion ELSE conflict.remoteVersion

\* resolveConflictManually: updateNote with the kept content fields and
\* conflictVersion: (noteToKeep.conflictVersion || 0) + 1, then uploadNote of
\* noteToKeep when the service is initialized.  The outcome as [db, remote].
ResolveConflictManually(web, d, r, init, conflict, useLocal, now) ==
    LET noteToKeep == NoteToKeep(conflict, useLocal)
    IN  [ db |-> UpdateNote(web, d, conflict.noteId,
                   [ title           |-> noteToKeep.title,
                     content         |-> noteToKeep.content,
                     conflictVersion |-> noteToKeep.conflictVersion + 1 ], now),
          remote |-> IF init THEN UploadNote(r, noteToKeep, now) ELSE r ]

\* The updater of resolveConflict:
\* conflicts: prev.conflicts.filter(c => c.noteId !== conflict.noteId).
RemoveConflict(prev, conflict) ==
    [ prev EXCEPT !.conflicts =
        SelectSeq(prev.conflicts, LAMBDA c : c.noteId # conflict.noteId) ]

\* The SyncConflict resolveConflict returns for the local note n and a remote
\* revision of it with the same updatedAt, content v and conflictVersion cv
\* (a sequence, empty when the contents are equal).
ConflictOf(n, v, cv) ==
    ResolveConflict(isWeb, db, remote, n,
        MapFirebaseToNote([ key |-> OrId(n.syncId, n.id), id |-> n.id,
                            title |-> n.title, content |-> v,
                            updatedAt |-> n.updatedAt, isDeleted |-> FALSE,
                            conflictVersion |-> cv, lastModified |-> clock ],
                          clock),
        clock, clock).conflict

\* A value of syncNotes' return type: the conflicts of the notes in S, in the
\* order of their ids.
RECURSIVE ConflictsOf(_, _, _)
ConflictsOf(S, v, cv) ==
    IF S = {} THEN <<>>
    ELSE LET id == CHOOSE x \in S : \A y \in S : x <= y
             n == CHOOSE m \in GetNoteById(db, id) : TRUE
         IN  ConflictOf(n, v, cv) \o ConflictsOf(S \ {id}, v, cv)

\* performSync after a pass that returned {success: true, conflicts: cs}.
PublishPass(cs) ==
    /\ isInitialized
    /\ passes < MaxPasses
    /\ passes' = passes + 1
    /\ syncStatus' = PerformSync(syncStatus, [ success |-> TRUE, conflicts |-> cs ],
                                 isWeb, db)
    /\ UNCHANGED <<isWeb, clock, db, watermark, remote, isInitialized,
                   syncInProgress, pc, localNotes, docs, conflicts, result,
                   pushFailed, met, edits, remoteWrites, observed, resolved,
                   realtimeVars, peer>>

\* The conflicts a caller of resolveConflict may hold: the open ones and
\* those it has resolved before.
KnownConflicts ==
    { syncStatus.conflicts[i] : i \in DOMAIN syncStatus.conflicts }
    \cup { resolved[i].conflict : i \in DOMAIN resolved }

\* resolveConflict of notes-store: resolveConflictManually, the updater, then
\* loadNotes.
StoreResolveConflict(conflict, useLocal) ==
    /\ Len(resolved) < MaxResolves
    /\ conflict \in KnownConflicts
    /\ LET out == ResolveConflictManually(isWeb, db, remote, isInitialized,
                                          conflict, useLocal, clock)
       IN  /\ db' = out.db
           /\ remote' = out.remote
           /\ syncStatus' = LoadNotes(RemoveConflict(syncStatus, conflict),
                                      isWeb, out.db)
    /\ resolved' = Append(resolved, [ conflict |-> conflict, useLocal |-> useLocal ])
    /\ UNCHANGED <<isWeb, clock, watermark, isInitialized, syncInProgress, pc,
                   localNotes, docs, conflicts, result, pushFailed, met, edits,
                   remoteWrites, observed, passes, realtimeVars, peer>>

\* resolveConflict of notes-store when uploadNote throws: updateNote has run,
\* the catch logs, the status is left as it is.
StoreResolveConflictFail(conflict, useLocal) ==
    /\ Len(resolved) < MaxResolves
    /\ conflict \in KnownConflicts
    /\ db' = ResolveConflictManually(isWeb, db, remote, isInitialized,
                                     conflict, useLocal, clock).db
    /\ UNCHANGED <<isWeb, clock, watermark, remote, isInitialized, syncInProgress,
                   pc, localNotes, docs, conflicts, result, pushFailed, met,
                   edits, remoteWrites, syncStatus, observed, resolved, passes,
                   realtimeVars, peer>>

\* The notes a pass can report a conflict for.
LiveIds == { id \in LocalIds : GetNoteById(db, id) # {} }

\* notes-store seen from its callers: the user's mutations (of the content
\* field), the results of passes drawn from syncNotes' return type, and
\* resolveConflict.
NextConflicts ==
    \/ Tick /\ UNCHANGED storeVars
    \/ Initialize /\ UNCHANGED storeVars
    \/ \E c \in Vals : AddNote("x", c) /\ StoreAfterUser
    \/ \E id \in LocalIds, c \in Vals : EditNote(id, [ content |-> c ]) /\ StoreAfterUser
    \/ \E S \in SUBSET LiveIds, v \in Vals, cv \in 0..MaxConflictVersion :
          PublishPass(ConflictsOf(S, v, cv))
    \/ \E c \in KnownConflicts, useLocal \in BOOLEAN : StoreResolveConflict(c, useLocal)
    \/ \E c \in KnownConflicts, useLocal \in BOOLEAN :
          StoreResolveConflictFail(c, useLocal)

SpecConflicts == Init /\ [][NextConflicts]_vars

\* ------------------------------------------------------ startRealtimeSync
\* The state of the engine and of the local store.
engineVars == <<isWeb, clock, db, watermark, remote, isInitialized,
                syncInProgress, pc, localNotes, docs, conflicts, result,
                pushFailed, met, edits, remoteWrites>>

\* The network goes down.
GoOffline ==
    /\ connected
    /\ connected' = FALSE
    /\ UNCHANGED <<engineVars, syncStatus, observed, resolved, passes, peer,
                   started, listeners, delivered, rt>>

\* The network comes back.
GoOnline ==
    /\ ~connected
    /\ connected' = TRUE
    /\ UNCHANGED <<engineVars, syncStatus, observed, resolved, passes, peer,
                   started, listeners, delivered, rt>>

\* initialize() as initializeServices calls it, before startRealtimeSync.
InitializeAtStart == ~started /\ Initialize

\* startRealtimeSync, called once by initializeServices: it returns without
\* subscribing when the service is not initialized or the device is offline.
StartRealtimeSync ==
    /\ ~started
    /\ started' = TRUE
    /\ listeners' = IF isInitialized /\ connected THEN listeners + 1 ELSE listeners
    /\ UNCHANGED <<engineVars, syncStatus, observed, resolved, passes, peer,
                   connected, delivered, rt>>

\* The test of the callback: !localNote || localNote.updatedAt < remoteNote.updatedAt.
RealtimeSaves(d, remoteNote) ==
    \/ GetNoteById(d, remoteNote.id) = {}
    \/ \E n \in GetNoteById(d, remoteNote.id) : n.updatedAt < remoteNote.updatedAt

\* The body of the callback's loop for one docChange, as [db, remote, conflict].
RealtimeChange(web, d, r, data, now, later) ==
    LET remoteNote == MapFirebaseToNote(data, now)
    IN  [ db |-> IF RealtimeSaves(d, remoteNote)
                 THEN SaveRemoteNote(web, d, remoteNote, now, later)
                 ELSE d,
          remote |-> r, conflict |-> <<>> ]

RtIdle == [ pc |-> "idle", data |-> NoDoc ]

\* onSnapshot calls back with a document that was added or modified since
\* the listener last saw it.
RtSnapshot(k) ==
    /\ listeners > 0 /\ connected
    /\ rt.pc = "idle"
    /\ Present(remote, k) /\ remote[k].lastModified # delivered[k]
    /\ delivered' = [ delivered EXCEPT ![k] = remote[k].lastModified ]
    /\ rt' = [ pc |-> "getNote", data |-> remote[k] ]
    /\ UNCHANGED <<engineVars, syncStatus, observed, resolved, passes, peer,
                   connected, started, listeners>>

\* await getNoteById resolves and the callback compares.
RtCompare ==
    /\ rt.pc = "getNote"
    /\ rt' = IF RealtimeSaves(db, MapFirebaseToNote(rt.data, clock))
             THEN [ rt EXCEPT !.pc = "save" ]
             ELSE RtIdle
    /\ UNCHANGED <<engineVars, syncStatus, observed, resolved, passes, peer,
                   connected, started, listeners, delivered>>

\* saveRemoteNote, then onUpdate(), which is loadNotes.
RtSave(later) ==
    /\ rt.pc = "save"
    /\ LET out == SaveRemoteNote(isWeb, db, MapFirebaseToNote(rt.data, clock),
                                 clock, later)
       IN  /\ Len(out) <= MaxNotes
           /\ db' = out
           /\ syncStatus' = LoadNotes(syncStatus, isWeb, out)
    /\ clock' = later
    /\ rt' = RtIdle
    /\ UNCHANGED <<isWeb, watermark, remote, isInitialized, syncInProgress, pc,
                   localNotes, docs, conflicts, result, pushFailed, met, edits,
                   remoteWrites, observed, resolved, passes, connected, started,
                   listeners, delivered, peer>>

\* The device with its subscription, a pass of syncNotes and another writer
\* of the collection; the device stays online.
NextRealtime ==
    \/ Tick /\ UNCHANGED storeVars
    \/ InitializeAtStart /\ UNCHANGED storeVars
    \/ StartRealtimeSync
    \/ AddNote("x", "x") /\ StoreAfterUser
    \/ \E id \in LocalIds : EditNote(id, [ content |-> "y" ]) /\ StoreAfterUser
    \/ \E k \in DocKeys, c \in Vals, u \in RemoteTimes :
          RemoteWrite(k, "x", c, u, FALSE) /\ UNCHANGED storeVars
    \/ SyncEnter("a") /\ StoreAfterSync("a")
    \/ SyncOnline("a", connected) /\ StoreAfterSync("a")
    \/ SyncGetNotes("a") /\ StoreAfterSync("a")
    \/ SyncUpload("a") /\ StoreAfterSync("a")
    \/ SyncMark("a") /\ StoreAfterSync("a")
    \/ SyncQuery("a") /\ StoreAfterSync("a")
    \/ \E later \in LaterTimes : SyncDoc("a", later) /\ StoreAfterSync("a")
    \/ SyncSetTime("a") /\ StoreAfterSync("a")
    \/ SyncReturn("a") /\ StoreAfterSync("a")
    \/ SyncDone("a") /\ StoreAfterSync("a")
    \/ \E k \in DocKeys : RtSnapshot(k)
    \/ RtCompare
    \/ \E later \in LaterTimes : RtSave(later)

SpecRealtime == Init /\ [][NextRealtime]_vars

\* The subscription alone: the start of the services, the network going
\* down and up, another writer of the collection and the callback.
NextSubscribe ==
    \/ Tick /\ UNCHANGED storeVars
    \/ InitializeAtStart /\ UNCHANGED storeVars
    \/ GoOffline
    \/ GoOnline
    \/ StartRealtimeSync
    \/ \E k \in DocKeys, c \in Vals, u \in RemoteTimes :
          RemoteWrite(k, "x", c, u, FALSE) /\ UNCHANGED storeVars
    \/ \E k \in DocKeys : RtSnapshot(k)
    \/ RtCompare
    \/ \E later \in LaterTimes : RtSave(later)

\* initializeServices runs to its call of startRealtimeSync.
FairSubscribe ==
    Init /\ [][NextSubscribe]_vars /\ WF_vars(StartRealtimeSync)

\* ------------------------------------------------------ getConflictFields
\* The values a note's optional content fields may hold.
Completeds == { Undefined, Some(FALSE), Some(TRUE) }
TagLists == { Some(<<>>), Some(<<"t">>) }
Checklists == { Undefined, Some(<<>>), Some(<<"i">>) }

\* A local note with all its content fields, never synced.
FullNotes ==
    { [ id |-> 1, title |-> t, content |-> c, completed |-> done,
        tags |-> tags, checklist |-> list, updatedAt |-> 1,
        lastSyncAt |-> NoTime, syncId |-> NoId, conflictVersion |-> 0,
        isDeleted |-> FALSE ] :
      t \in Vals, c \in Vals, done \in Completeds, tags \in TagLists,
      list \in Checklists }

\* A document of that note as another writer may have left it, with the
\* same updatedAt.
FullDocs ==
    { [ key |-> 1, id |-> 1, title |-> t, content |-> c, completed |-> done,
        tags |-> tags, checklist |-> list, updatedAt |-> 1,
        isDeleted |-> FALSE, conflictVersion |-> 0, lastModified |-> 1 ] :
      t \in Vals, c \in Vals, done \in Completeds,
      tags \in TagLists \cup {Undefined}, list \in Checklists }

\* A local note and a document to compare it with.
InitFields ==
    /\ isWeb \in BOOLEAN
    /\ clock = 1
    /\ db = <<>>
    /\ watermark = NoTime
    /\ remote = [ k \in DocKeys |-> NoDoc ]
    /\ isInitialized = TRUE
    /\ syncInProgress = FALSE
    /\ pc = [ p \in Invocations |-> "idle" ]
    /\ \E n \in FullNotes :
          localNotes = [ p \in Invocations |-> IF p = "a" THEN <<n>> ELSE <<>> ]
    /\ \E d \in FullDocs :
          docs = [ p \in Invocations |-> IF p = "a" THEN <<d>> ELSE <<>> ]
    /\ conflicts = [ p \in Invocations |-> <<>> ]
    /\ result = [ p \in Invocations |-> Refused ]
    /\ pushFailed = [ p \in Invocations |-> {} ]
    /\ met = [ p \in Invocations |-> {} ]
    /\ edits = 0
    /\ remoteWrites = 0
    /\ syncStatus = [ isSyncing |-> FALSE, pendingChanges |-> 0, conflicts |-> <<>> ]
    /\ observed = [ p \in Invocations |-> {} ]
    /\ resolved = <<>>
    /\ passes = 0
    /\ connected = TRUE
    /\ started = FALSE
    /\ listeners = 0
    /\ delivered = [ k \in DocKeys |-> NoTime ]
    /\ rt = RtIdle
    /\ peer = [ db |-> <<>>, watermark |-> NoTime ]

\* uploadNote of the local note; the document read back is the one to
\* compare with.
UploadThenFetch ==
    /\ pc["a"] = "idle" /\ ~Present(remote, 1)
    /\ remote' = UploadNote(remote, Head(localNotes["a"]), clock)
    /\ docs' = [ docs EXCEPT !["a"] =
                   << UploadNote(remote, Head(localNotes["a"]), clock)[1] >> ]
    /\ UNCHANGED <<isWeb, clock, db, watermark, isInitialized, syncInProgress,
                   pc, localNotes, conflicts, result, pushFailed, met, edits,
                   remoteWrites, storeVars>>

\* mapFirebaseToNote of the document, then resolveConflict of the pair (the
\* updatedAt are equal, so its last branch calls getConflictFields).
CompareFields ==
    /\ pc["a"] = "idle"
    /\ conflicts' = [ conflicts EXCEPT !["a"] =
          ResolveConflict(isWeb, db, remote, Head(localNotes["a"]),
                          MapFirebaseToNote(Head(docs["a"]), clock),
                          clock, clock).conflict ]
    /\ pc' = [ pc EXCEPT !["a"] = "done" ]
    /\ UNCHANGED <<isWeb, clock, db, watermark, remote, isInitialized,
                   syncInProgress, localNotes, docs, result, pushFailed, met,
                   edits, remoteWrites, storeVars>>

NextFields ==
    \/ UploadThenFetch
    \/ CompareFields

SpecFields == InitFields /\ [][NextFields]_vars

\* ------------------------------------------------------------ two devices
\* A second device runs the same code on the same collection.  Its store is
\* peer.db, its 'last_sync_time' peer.watermark.  saveNote draws its ids
\* from note_<time>_<random>, so no id of one device is an id of the other:
\* the second device's row i has the id PeerBase + i.
PeerBase == MaxNotes + 1

PeerIds(d) == [ i \in DOMAIN d |-> [ d[i] EXCEPT !.id = PeerBase + i ] ]

\* The for loop of syncNotes: uploadNote, then markAsSynced, note after note.
RECURSIVE PushNotes(_, _, _, _)
PushNotes(d, r, notes, now) ==
    IF notes = <<>> THEN [ db |-> d, remote |-> r ]
    ELSE LET note == Head(notes)
         IN  PushNotes(MarkAsSynced(d, note.id, OrId(note.syncId, note.id), now),
                       UploadNote(r, note, now), Tail(notes), now)

\* The for loop of downloadRemoteChanges on the second device.
RECURSIVE PullDocs(_, _, _, _, _, _)
PullDocs(web, d, r, snapshot, now, later) ==
    IF snapshot = <<>> THEN [ db |-> d, remote |-> r ]
    ELSE LET out == DownloadDoc(web, d, r, Head(snapshot), now, later)
         IN  PullDocs(web, PeerIds(out.db), out.remote, Tail(snapshot), now, later)

\* A pass of syncNotes on the second device, initialized and online, no
\* step of this device falling between its awaits: push, pull, then
\* setSyncMetadata.
PeerSyncNotes(later) ==
    LET notes == GetNotesForSync(isWeb, peer.db)
        pushed == PushNotes(peer.db, remote, notes, clock)
        snapshot == QueryDocs(pushed.remote, peer.watermark)
        pulled == PullDocs(isWeb, pushed.db, pushed.remote, snapshot, clock, later)
    IN  /\ \A i \in DOMAIN notes : OrId(notes[i].syncId, notes[i].id) \in DocKeys
        /\ Len(pulled.db) <= MaxNotes
        /\ peer' = [ db |-> pulled.db, watermark |-> later ]
        /\ remote' = pulled.remote
        /\ clock' = later
        /\ [ db |-> pulled.db, remote |-> pulled.remote, watermark |-> later ]
             # [ db |-> peer.db, remote |-> remote, watermark |-> peer.watermark ]
        /\ UNCHANGED <<isWeb, db, watermark, isInitialized, syncInProgress, pc,
                       localNotes, docs, conflicts, result, pushFailed, met,
                       edits, remoteWrites, syncStatus, observed, resolved,
                       passes, realtimeVars>>

\* updateNote of notes-store on the second device.
PeerEditNote(id, updates) ==
    /\ edits < MaxEdits
    /\ GetNoteById(peer.db, id) # {}
    /\ peer' = [ peer EXCEPT !.db = UpdateNote(isWeb, peer.db, id, updates, clock) ]
    /\ edits' = edits + 1
    /\ UNCHANGED <<isWeb, clock, db, watermark, remote, isInitialized,
                   syncInProgress, pc, localNotes, docs, conflicts, result,
                   pushFailed, met, remoteWrites, syncStatus, observed,
                   resolved, passes, realtimeVars>>

\* One note, created on this device, and the two devices syncing it.
NextDevices ==
    \/ Tick /\ UNCHANGED storeVars
    \/ Initialize /\ UNCHANGED storeVars
    \/ db = <<>> /\ AddNote("x", "x") /\ UNCHANGED storeVars
    \/ SyncEnter("a") /\ UNCHANGED storeVars
    \/ SyncOnline("a", TRUE) /\ UNCHANGED storeVars
    \/ SyncGetNotes("a") /\ UNCHANGED storeVars
    \/ SyncUpload("a") /\ UNCHANGED storeVars
    \/ SyncMark("a") /\ UNCHANGED storeVars
    \/ SyncQuery("a") /\ UNCHANGED storeVars
    \/ \E later \in LaterTimes : SyncDoc("a", later) /\ UNCHANGED storeVars
    \/ SyncSetTime("a") /\ UNCHANGED storeVars
    \/ SyncReturn("a") /\ UNCHANGED storeVars
    \/ SyncDone("a") /\ UNCHANGED storeVars
    \/ \E later \in LaterTimes : PeerSyncNotes(later)
    \/ \E i \in LocalIds : PeerEditNote(PeerBase + i, [ content |-> "y" ])

SpecDevices == Init /\ [][NextDevices]_vars

\* ================================================================ claims
\* The invocation is inside the try block of syncNotes (past the line
\* `this.syncInProgress = true`, before its return).
InBody(p) ==
    pc[p] \in {"getNotes", "upload", "mark", "pull", "doc", "setTime", "return"}

\* C1: at any time at most one invocation of syncNotes is executing the
\* push/pull body, also when two calls were both suspended at isOnline().
C1_OnePassAtATime ==
    \A p \in Invocations, q \in Invocations :
        p # q => ~(InBody(p) /\ InBody(q))

\* C7: an invocation that set syncInProgress resets it when it terminates,
\* on every path (all pushes fine, a push fails, the pull throws); the flag
\* is never left true with no pass in flight.
C7_FlagReleased ==
    /\ syncInProgress => \E p \in Invocations : InBody(p)
    /\ \A p \in Invocations : pc[p] = "done" /\ (\A q \in Invocations : ~InBody(q))
                                  => ~syncInProgress

\* A pass in which an upload threw has terminated and the flag is down.
C7_Witness ==
    \E p \in Invocations :
        pc[p] = "done" /\ pushFailed[p] # {} /\ ~syncInProgress

\* C8: a call made while the service is not initialized, or while
\* syncInProgress is true, or while the device is offline returns
\* {success: false, conflicts: []} and leaves the local store, the remote
\* collection, the watermark and syncInProgress as they were.
C8_RefusedChangesNothing ==
    [][ \A p \in Invocations :
          /\ (pc[p] = "idle" /\ pc'[p] # "idle"
                 /\ (~isInitialized \/ syncInProgress))
               => pc'[p] = "refused"
          /\ (pc[p] # "refused" /\ pc'[p] = "refused")
               => /\ result'[p] = [ success |-> FALSE, conflicts |-> <<>> ]
                  /\ UNCHANGED <<db, remote, watermark, syncInProgress>> ]_vars

\* A call was refused while another invocation holds the flag.
C8_Witness ==
    \E p \in Invocations, q \in Invocations :
        /\ pc[p] = "refused" /\ InBody(q) /\ syncInProgress
        /\ db # <<>>

\* The rows of the store with the given id.
Rows(d, id) == { d[i] : i \in { j \in DOMAIN d : d[j].id = id } }

\* The step of invocation p in which uploadNote threw.
UploadFailed(p) == pc[p] = "upload" /\ pushFailed'[p] # pushFailed[p]

\* The step of invocation p in which markAsSynced ran.
Marked(p) == pc[p] = "mark" /\ pc'[p] # "mark"

\* C9: an upload that throws does not abort the pass: the store and the
\* collection are left alone (the note is not marked synced), the loop goes
\* on with the next dirty note and, after the last one, with the pull; the
\* pass never marks the failed note afterwards.
C9_UploadFailureContained ==
    [][ \A p \in Invocations :
          /\ UploadFailed(p) =>
                /\ UNCHANGED <<db, remote, syncInProgress>>
                /\ localNotes'[p] = Tail(localNotes[p])
                /\ pc'[p] = IF Tail(localNotes[p]) = <<>> THEN "pull" ELSE "upload"
          /\ Marked(p) => Head(localNotes[p]).id \notin pushFailed[p] ]_vars

\* A pass has completed its pull although one upload threw; the failed note
\* is still dirty and another note was pushed and marked.
C9_Witness ==
    \E p \in Invocations :
        /\ pc[p] = "done" /\ result[p].success
        /\ \E i \in DOMAIN db, j \in DOMAIN db :
              /\ db[i].id \in pushFailed[p] /\ IsDirty(db[i])
              /\ db[i] \in { GetNotesForSync(isWeb, db)[k] :
                                k \in DOMAIN GetNotesForSync(isWeb, db) }
              /\ i # j /\ db[j].lastSyncAt # NoTime

\* C6: when markAsSynced has run, the note is clean only if the revision the
\* store holds is the one that was uploaded; a local edit made between
\* getNotesForSync and markAsSynced leaves the note dirty.
C6_EditDuringPushStaysDirty ==
    [][ \A p \in Invocations :
          Marked(p) =>
            \A n \in Rows(db', Head(localNotes[p]).id) :
                (\/ n.title # Head(localNotes[p]).title
                 \/ n.content # Head(localNotes[p]).content
                 \/ n.isDeleted # Head(localNotes[p]).isDeleted) => IsDirty(n) ]_vars

\* C3: the push step never replaces a remote revision by a local revision
\* whose updatedAt is strictly older.
C3_PushKeepsNewerRemote ==
    [][ \A p \in Invocations :
          (pc[p] = "upload" /\ pc'[p] = "mark") =>
             LET note == Head(localNotes[p])
                 k == OrId(note.syncId, note.id)
             IN  Present(remote, k) => ~(note.updatedAt < remote[k].updatedAt) ]_vars

\* C10: on either store a soft-deleted note that is dirty is part of what
\* getNotesForSync returns to the next pass.
C10_DeletedNoteIsPushed ==
    \A i \in DOMAIN db :
        db[i].isDeleted /\ IsDirty(db[i])
          => db[i] \in { GetNotesForSync(isWeb, db)[k] :
                           k \in DOMAIN GetNotesForSync(isWeb, db) }

\* C4: a pass that met a note whose local and remote revisions have the same
\* updatedAt and differing content fields returns exactly one conflict for
\* that note, naming the differing fields.
C4_TieYieldsConflict ==
    \A p \in Invocations :
        pc[p] = "done" /\ result[p].success =>
          \A id \in { m.id : m \in { x \in met[p] : x.later = "none" } } :
            Cardinality({ k \in DOMAIN result[p].conflicts :
                            /\ result[p].conflicts[k].noteId = id
                            /\ result[p].conflicts[k].conflictFields # <<>> }) = 1

\* C5: applying a pulled payload a second time changes nothing: no new
\* conflict, and the store is as the first application left it.
C5_SecondApplicationIsNoOp ==
    \A p \in Invocations :
        pc[p] = "doc" =>
          LET data == Head(docs[p])
              once == DownloadDoc(isWeb, db, remote, data, clock, clock)
              twice == DownloadDoc(isWeb, once.db, once.remote, data, clock, clock)
          IN  twice.conflict = <<>> /\ twice.db = once.db

\* The step of invocation p that handles the first pulled document.
Pulled(p) == pc[p] = "doc" /\ docs'[p] = Tail(docs[p]) /\ pc'[p] # "done"

\* The content fields of x are those of y.
SameContent(x, y) == x.title = y.title /\ x.content = y.content

OpenIds(status) == { status.conflicts[i].noteId : i \in DOMAIN status.conflicts }

\* The step in which a resolveConflict call completed, and that call.
ResolveDone == Len(resolved') > Len(resolved)
LastCall == resolved'[Len(resolved')]

DirtyCount(d) == Cardinality({ i \in DOMAIN d : IsDirty(d[i]) })

\* The step in which performSync publishes the result of a successful pass.
PassPublished(p) == pc[p] = "done" /\ result[p].success /\ pc'[p] = "idle"

\* The step of a local add, update or delete.
UserMutated == edits' # edits

\* C12: after a completed pass has been published, and after every local
\* add, update or delete, SyncStatus.pendingChanges is the number of dirty
\* local notes, also when some pushes of the pass failed.
C12_PendingIsDirtyCount ==
    [][ (PassPublished("a") \/ UserMutated)
           => syncStatus'.pendingChanges = DirtyCount(db') ]_vars

\* The document key uploadNote writes a note under.
KeyOf(n) == OrId(n.syncId, n.id)

C14_ConflictVersionPlusOne ==
    [][ ResolveDone =>
          \A i \in DOMAIN db :
              db[i].id = LastCall.conflict.noteId
                => db'[i].conflictVersion = db[i].conflictVersion + 1 ]_vars

\* The completed call repeats an earlier completed call (same conflict, same
\* choice) and the conflict of its note is not open.
ResolvedAgain ==
    /\ ResolveDone
    /\ \E i \in DOMAIN resolved : resolved[i] = LastCall
    /\ LastCall.conflict.noteId \notin OpenIds(syncStatus)

\* C15: resolving the same conflict a second time with the same choice,
\* after the first resolution completed, writes nothing to the local store,
\* uploads nothing and leaves SyncStatus.conflicts as it is.
C15_SecondResolveIsNoOp ==
    [][ ResolvedAgain =>
          /\ db' = db
          /\ remote' = remote
          /\ syncStatus'.conflicts = syncStatus.conflicts ]_vars

\* C16: a pulled remote note (not deleted) with no local row of its id is
\* inserted verbatim: afterwards getNoteById(remote.id) returns a note with
\* the remote content and updatedAt, and that note is not dirty.
C16_InsertedVerbatim ==
    [][ \A p \in Invocations :
          Pulled(p) =>
            LET data == Head(docs[p])
            IN  (Rows(db, data.id) = {} /\ ~data.isDeleted) =>
                  \E n \in GetNoteById(db', data.id) :
                      /\ SameContent(n, data)
                      /\ n.updatedAt = data.updatedAt
                      /\ ~IsDirty(n) ]_vars

\* C17: when the pull applies a later remote revision to an existing local
\* note, the note is not dirty afterwards and its updatedAt is the remote
\* revision's, on either store.
C17_TakeRemoteLeavesClean ==
    [][ \A p \in Invocations :
          Pulled(p) =>
            LET data == Head(docs[p])
            IN  \A local \in GetNoteById(db, data.id) :
                  data.updatedAt > local.updatedAt =>
                    \A n \in Rows(db', local.id) :
                        ~IsDirty(n) /\ n.updatedAt = data.updatedAt ]_vars

\* The latest of a non-empty set of times.
MaxOf(S) == CHOOSE x \in S : \A y \in S : y <= x

\* The step in which the pull of invocation p stores the watermark.
PullCompleted(p) == pc[p] = "setTime" /\ pc'[p] = "return"

\* C18: when a pull completes, the stored watermark is the greatest
\* lastModified among the documents the pull observed, and is left as it was
\* when the pull observed none.
C18_WatermarkIsMaxObserved ==
    [][ PullCompleted("a") =>
          watermark' = IF observed["a"] = {} THEN watermark
                       ELSE MaxOf(observed["a"]) ]_vars

\* The step in which invocation p leaves the handling of a pulled record,
\* whether the record was applied or its handling threw.
RecordLeft(p) == pc[p] = "doc" /\ (pc'[p] # "doc" \/ docs'[p] # docs[p])

\* C19: a pulled record whose handling fails is the only one skipped: the
\* loop goes on with the records after it and, after the last one, the pull
\* completes.
C19_BadRecordIsSkipped ==
    [][ \A p \in Invocations :
          RecordLeft(p) =>
            /\ docs'[p] = Tail(docs[p])
            /\ pc'[p] = AfterDocs(Tail(docs[p])) ]_vars

\* The step in which the pull of invocation p throws.
PullFailed(p) == pc[p] \in {"pull", "doc"} /\ pc'[p] = "done"

\* C20: when the pull throws, nothing done so far is rolled back: the local
\* store (notes marked synced, records applied by the pull) and the remote
\* collection stay as they are, the pass returns success = false and the
\* watermark is not advanced.
C20_NoRollbackOnFailure ==
    [][ \A p \in Invocations :
          PullFailed(p) =>
            /\ db' = db
            /\ remote' = remote
            /\ watermark' = watermark
            /\ ~result'[p].success ]_vars

\* A pass has failed in its pull after it pushed a note, which is still
\* marked synced with its content in the collection, and after it applied a
\* pulled record; no watermark has been stored.
C20_Witness ==
    \E p \in Invocations :
        /\ pc[p] = "done" /\ ~result[p].success
        /\ watermark = NoTime
        /\ met[p] # {}
        /\ \E i \in DOMAIN db :
              /\ db[i].lastSyncAt # NoTime /\ db[i].syncId = db[i].id
              /\ Present(remote, KeyOf(db[i]))
              /\ SameContent(remote[KeyOf(db[i])], db[i])

\* The step in which the realtime callback has read the local note and
\* decides what to do with the change it was called with.
RtHandles == rt.pc = "getNote" /\ rt'.pc # "getNote"

\* C21: for a remote change delivered by the realtime listener, the effect of
\* the callback on the local store, the collection and the conflict set is
\* the effect the pull step's handling of that document has in the same
\* state.
C21_ListenerMatchesPull ==
    [][ RtHandles =>
          \A later \in LaterTimes :
              RealtimeChange(isWeb, db, remote, rt.data, clock, later)
                = DownloadDoc(isWeb, db, remote, rt.data, clock, later) ]_vars

\* C22: a subscription is established only while the device is online and
\* the service is initialized, and whenever the device is online with the
\* service initialized a subscription eventually becomes active (or the
\* device goes offline again).
C22_SubscribedWhenOnline ==
    /\ [][ listeners' > listeners => (connected /\ isInitialized) ]_vars
    /\ ((isInitialized /\ connected) ~> (listeners > 0 \/ ~connected))

\* The content fields whose values differ, by value equality, in the order
\* title, content, completed, tags, checklist.
Differing(x, y) ==
    SelectSeq(<<"title", "content", "completed", "tags", "checklist">>,
              LAMBDA f : x[f] # y[f])

\* C23: getConflictFields returns exactly the names of the content fields
\* whose values differ; it returns none for a local note and the remote form
\* of that same revision (uploadNote, then mapFirebaseToNote); and a
\* SyncConflict never has an empty conflictFields.
C23_ConflictFieldsExact ==
    pc["a"] = "done" =>
      LET localNote == Head(localNotes["a"])
          remoteNote == MapFirebaseToNote(Head(docs["a"]), clock)
      IN  /\ GetConflictFields(localNote, remoteNote) = Differing(localNote, remoteNote)
          /\ Present(remote, 1) => GetConflictFields(localNote, remoteNote) = <<>>
          /\ \A i \in DOMAIN conflicts["a"] : conflicts["a"][i].conflictFields # <<>>

\* The step is one of the sync engine's (a step of syncNotes or of the
\* realtime callback): a push, an insert of a pulled note, a take-remote.
EngineStep == pc' # pc \/ rt' # rt

\* C24: the conflictVersion of a note never decreases, in the local store and
\* in the remote document, and no step of the sync engine (push, insert of a
\* pulled note, take-remote) changes it on either side.
C24_ConflictVersionMonotone ==
    [][ /\ \A i \in DOMAIN db :
              /\ db'[i].conflictVersion >= db[i].conflictVersion
              /\ EngineStep => db'[i].conflictVersion = db[i].conflictVersion
        /\ \A k \in DocKeys :
              (Present(remote, k) /\ Present(remote', k)) =>
                /\ remote'[k].conflictVersion >= remote[k].conflictVersion
                /\ EngineStep => remote'[k].conflictVersion = remote[k].conflictVersion ]_vars

\* C25: SyncStatus.isSyncing is true in every state in which a pass is in
\* flight, also when another performSync call, whose syncNotes was refused,
\* has finished meanwhile.
C25_IsSyncingWhilePassRuns ==
    (\E p \in Invocations : InBody(p)) => syncStatus.isSyncing

\* The step in which the realtime callback writes the change it was called
\* with (saveRemoteNote).
RtWrites == rt.pc = "save" /\ rt'.pc = "idle"

\* C26: the handlers of one remote note are serialized: when the realtime
\* callback writes, the comparison it made is still true of the local store
\* as the pull step or a local edit has left it meanwhile, so no local
\* revision is overwritten on a stale comparison.
C26_NoStaleOverwrite ==
    [][ RtWrites => RealtimeSaves(db, MapFirebaseToNote(rt.data, clock)) ]_vars

\* C27: resolving an open conflict with useLocal = true keeps the content
\* the local note holds at the time of the call (an edit made after the
\* conflict was detected included) and pushes that content; the localVersion
\* snapshot is not written back.
C27_KeepLocalKeepsCurrent ==
    [][ (ResolveDone /\ LastCall.useLocal
           /\ LastCall.conflict.noteId \in OpenIds(syncStatus)) =>
          \A n \in Rows(db, LastCall.conflict.noteId) :
              /\ \A m \in Rows(db', n.id) : SameContent(m, n)
              /\ Present(remote', KeyOf(n))
              /\ SameContent(remote'[KeyOf(n)], n) ]_vars

\* Every revision of the local store is in the collection: the document of
\* the row is there with the row's content and deletion mark.
InRemote(n) ==
    /\ Present(remote, KeyOf(n))
    /\ SameContent(remote[KeyOf(n)], n)
    /\ remote[KeyOf(n)].isDeleted = n.isDeleted

\* Nothing is left to push.
AllPushed ==
    /\ \A i \in DOMAIN db : ~IsDirty(db[i]) /\ InRemote(db[i])
    /\ syncStatus.pendingChanges = 0

\* C28: with the service initialized, the device online, uploads succeeding
\* and the periodic timer scheduled fairly, once the user has stopped
\* editing every dirty note is eventually pushed and becomes non-dirty,
\* pendingChanges becomes 0 and no local revision is missing from the
\* remote, from then on.
C28_EventuallyAllPushed == <>[]isInitialized => <>[]AllPushed

\* The documents of other devices that this device has never applied: no
\* row of the store carries their id as syncId.
NeverApplied ==
    { k \in ForeignIds :
        Present(remote, k) /\ \A i \in DOMAIN db : db[i].syncId # remote[k].id }

\* C29: a pull never advances the watermark past the modification time of a
\* remote document it did not return: when the pull stores the watermark,
\* every document of another device that this device has not applied yet
\* still has lastModified > watermark, so that a later pull returns it.
C29_WatermarkSkipsNothing ==
    [][ PullCompleted("a") =>
          \A k \in NeverApplied : remote[k].lastModified > watermark' ]_vars

\* No pass is running, no note is dirty on either device and neither
\* device's query would return a document.
Quiescent ==
    /\ pc["a"] = "idle"
    /\ \A i \in DOMAIN db : ~IsDirty(db[i])
    /\ \A i \in DOMAIN peer.db : ~IsDirty(peer.db[i])
    /\ watermark # NoTime /\ QueryDocs(remote, watermark) = <<>>
    /\ peer.watermark # NoTime /\ QueryDocs(remote, peer.watermark) = <<>>

\* Both devices hold the note, and every row of either device has the
\* content of every document of the collection.
Converged ==
    /\ db # <<>> /\ peer.db # <<>>
    /\ \A k \in DocKeys : Present(remote, k) =>
         /\ \A i \in DOMAIN db : SameContent(db[i], remote[k])
         /\ \A i \in DOMAIN peer.db : SameContent(peer.db[i], remote[k])

\* C30: two devices syncing one note: once nothing is left to push or to
\* pull on either device, the note is dirty on neither and both devices and
\* the remote hold the same content.
C30_TwoDevicesConverge == (Quiescent /\ db # <<>>) => Converged

====
